---------------------------- MODULE Spec2Model ----------------------------
(***************************************************************************)
(* A model of scrape.py, the generator of the two UK Supreme Court RSS     *)
(* feeds (latest-judgments.xml and future-judgments.xml).                  *)
(*                                                                         *)
(* Python strings are TLA+ strings; characters are strings of length one.  *)
(* A matched element ("card") is the record of what the extractors read    *)
(* from it: its first a[href] descendant, its date sub-element, its        *)
(* category sub-element and the text around them.                          *)
(*                                                                         *)
(* Three specifications share the definitions:                             *)
(*   Spec      one call of parse_latest_judgments / parse_future_judgments,*)
(*             one loop iteration per step;                                *)
(*   SpecMain  one run of the process (main and the __main__ guard);       *)
(*   SpecRss   build_rss applied to one item whose fields are drawn from   *)
(*             all short strings over an alphabet of markup characters.    *)
(***************************************************************************)
EXTENDS Integers, Sequences, FiniteSets

\* ------------------------------------------------------------------ bounds

\* The longest document of hand-picked cards (Spec), and of cards per page
\* in a run of main (SpecMain).
MaxCards == 2

\* Numbered documents run up to Cap + MaxOver cards.
MaxOver == 2

\* The longest string drawn for an item field in SpecRss.
MaxLen == 4

\* ------------------------------------------------------- program constants

BASE == "https://www.supremecourt.uk"

\* items[:25]
Cap == 25

\* NOW = dt.datetime.utcnow(), read once when the module is loaded.
NOW == [year |-> 2026, month |-> 11, day |-> 5,
        hour |-> 9, minute |-> 30, second |-> 7]

\* ------------------------------------------------------- python str methods

Ch(s, i) == SubSeq(s, i, i)

Tail_(s, i) == SubSeq(s, i, Len(s))

IsSpace(c) == c \in {" ", "\t", "\n", "\r"}

IsDigit(c) == c \in {"0", "1", "2", "3", "4", "5", "6", "7", "8", "9"}

UpperCase == "ABCDEFGHIJKLMNOPQRSTUVWXYZ"

LowerCase == "abcdefghijklmnopqrstuvwxyz"

UpperChars == {Ch(UpperCase, k) : k \in 1..26}

LowerChars == {Ch(LowerCase, k) : k \in 1..26}

\* \w of the re module, on the characters of the model.
IsWord(c) == IsDigit(c) \/ c \in UpperChars \/ c \in LowerChars \/ c = "_"

LowerTable ==
    [c \in UpperChars |-> Ch(LowerCase, CHOOSE k \in 1..26 : Ch(UpperCase, k) = c)]

LowerCh(c) == IF c \in UpperChars THEN LowerTable[c] ELSE c

\* The least element of a non-empty set of integers.
Min(S) == CHOOSE k \in S : \A j \in S : k <= j

\* str.lower on s[lo..hi], by halves.
RECURSIVE lower_range(_, _, _)
lower_range(s, lo, hi) ==
    IF lo > hi THEN ""
    ELSE IF lo = hi THEN LowerCh(Ch(s, lo))
    ELSE lower_range(s, lo, (lo + hi) \div 2)
           \o lower_range(s, ((lo + hi) \div 2) + 1, hi)

\* str.lower
lower(s) == lower_range(s, 1, Len(s))

\* str.startswith
startswith(s, p) == Len(p) <= Len(s) /\ SubSeq(s, 1, Len(p)) = p

\* sub in s
Contains(s, sub) ==
    \E k \in 1..(Len(s) - Len(sub) + 1) : SubSeq(s, k, k + Len(sub) - 1) = sub

\* The indices (from 1) at which sub occurs in s.
Occurrences(s, sub) ==
    {k \in 1..(Len(s) - Len(sub) + 1) : SubSeq(s, k, k + Len(sub) - 1) = sub}

\* str.find: the first index (from 1) of sub in s, 0 if there is none.
Find(s, sub) == IF Contains(s, sub) THEN Min(Occurrences(s, sub)) ELSE 0

\* str.replace(old, new): left to right, non-overlapping (old is not empty).
RECURSIVE replace(_, _, _)
replace(s, old, new) ==
    LET k == Find(s, old)
    IN  IF k = 0 THEN s
        ELSE SubSeq(s, 1, k - 1) \o new \o replace(Tail_(s, k + Len(old)), old, new)

\* str.strip
RECURSIVE lstrip(_)
lstrip(s) == IF s # "" /\ IsSpace(Ch(s, 1)) THEN lstrip(Tail_(s, 2)) ELSE s

RECURSIVE rstrip(_)
rstrip(s) ==
    IF s # "" /\ IsSpace(Ch(s, Len(s)))
    THEN rstrip(SubSeq(s, 1, Len(s) - 1))
    ELSE s

strip(s) == rstrip(lstrip(s))

\* re.sub(r"\s+", " ", s): every maximal run of whitespace becomes one space.
RECURSIVE sub_spaces(_)
sub_spaces(s) ==
    LET ws == {k \in 1..Len(s) : IsSpace(Ch(s, k))}
    IN  IF ws = {} THEN s
        ELSE SubSeq(s, 1, Min(ws) - 1) \o " "
               \o sub_spaces(lstrip(Tail_(s, Min(ws))))

\* (s or ""): every caller passes a str (get_text() and dict fields are never
\* None), and for a str the expression is the string itself.
or_empty(s) == IF s = "" THEN "" ELSE s

norm_space(s) == strip(sub_spaces(or_empty(s)))

\* The replacements with the ampersand done last.
escape_xml_amp_last(s) ==
    replace(replace(replace(or_empty(s), "<", "&lt;"), ">", "&gt;"), "&", "&amp;")

escape_xml(s) ==
    replace(replace(replace(or_empty(s), "&", "&amp;"), "<", "&lt;"), ">", "&gt;")

\* ------------------------------------------------------------------ dates

\* s[i], or "" beyond the ends of s.
At(s, i) == IF 1 <= i /\ i <= Len(s) THEN Ch(s, i) ELSE ""

\* The first index >= i of s that holds no whitespace (Len(s) + 1 if none).
RECURSIVE skip_spaces(_, _)
skip_spaces(s, i) == IF IsSpace(At(s, i)) THEN skip_spaces(s, i + 1) ELSE i

\* The first index >= i of s that holds no \w character.
RECURSIVE skip_word(_, _)
skip_word(s, i) == IF IsWord(At(s, i)) THEN skip_word(s, i + 1) ELSE i

\* r"(\d{1,2}\s+\w+\s+\d{4})" matched at index i of s: the index after the
\* match, 0 if there is no match at i. Each greedy quantifier has one length
\* that lets the next atom match, so the backtracking search is this chain.
match_date_at(s, i) ==
    LET p == IF IsDigit(At(s, i)) /\ IsDigit(At(s, i + 1)) /\ IsSpace(At(s, i + 2))
             THEN i + 2
             ELSE IF IsDigit(At(s, i)) /\ IsSpace(At(s, i + 1)) THEN i + 1 ELSE 0
        q == skip_spaces(s, p)
        r == skip_word(s, q)
        t == skip_spaces(s, r)
    IN  IF /\ p # 0
           /\ r > q
           /\ t > r
           /\ \A k \in 0..3 : IsDigit(At(s, t + k))
        THEN t + 4
        ELSE 0

\* m = re.search(...); m.group(1) if m else "": the leftmost match.
search_date(s) ==
    IF \E i \in 1..Len(s) : match_date_at(s, i) # 0
    THEN LET i == CHOOSE i \in 1..Len(s) :
                     /\ match_date_at(s, i) # 0
                     /\ \A j \in 1..(i - 1) : match_date_at(s, j) = 0
         IN  SubSeq(s, i, match_date_at(s, i) - 1)
    ELSE ""

MonthNames ==
    << "january", "february", "march", "april", "may", "june", "july",
       "august", "september", "october", "november", "december" >>

MonthAbbr ==
    << "Jan", "Feb", "Mar", "Apr", "May", "Jun", "Jul", "Aug", "Sep", "Oct",
       "Nov", "Dec" >>

DayAbbr == << "Sun", "Mon", "Tue", "Wed", "Thu", "Fri", "Sat" >>

DigitTable == [c \in {Ch("0123456789", n + 1) : n \in 0..9} |->
                  CHOOSE n \in 0..9 : Ch("0123456789", n + 1) = c]

DigitVal(c) == DigitTable[c]

RECURSIVE int_of(_)
int_of(s) ==
    IF s = "" THEN 0
    ELSE 10 * int_of(SubSeq(s, 1, Len(s) - 1)) + DigitVal(Ch(s, Len(s)))

AllDigits(s) == \A k \in 1..Len(s) : IsDigit(Ch(s, k))

IsLeap(y) == (y % 4 = 0 /\ y % 100 # 0) \/ y % 400 = 0

DaysIn(y, m) ==
    IF m = 2 THEN (IF IsLeap(y) THEN 29 ELSE 28)
    ELSE IF m \in {4, 6, 9, 11} THEN 30 ELSE 31

\* dt.datetime.strptime(s, "%d %B %Y") on a whitespace-normalized s: the
\* datetime at midnight, or Invalid where strptime raises ValueError (the text
\* does not match day, full month name, four-digit year; or the day is not a
\* day of that month).
Invalid == [year |-> 0, month |-> 0, day |-> 0,
            hour |-> 0, minute |-> 0, second |-> 0]

strptime(s) ==
    LET p1 == Find(s, " ")
        rest1 == Tail_(s, p1 + 1)
        p2 == Find(rest1, " ")
        dd == SubSeq(s, 1, p1 - 1)
        mm == lower(SubSeq(rest1, 1, p2 - 1))
        yy == Tail_(rest1, p2 + 1)
    IN  IF /\ p1 > 1
           /\ p2 > 1
           /\ Len(dd) \in {1, 2} /\ AllDigits(dd) /\ int_of(dd) \in 1..31
           /\ \E m \in 1..12 : MonthNames[m] = mm
           /\ Len(yy) = 4 /\ AllDigits(yy) /\ int_of(yy) >= 1
        THEN LET m == CHOOSE m \in 1..12 : MonthNames[m] = mm
                 y == int_of(yy)
                 d == int_of(dd)
             IN  IF d <= DaysIn(y, m)
                 THEN [year |-> y, month |-> m, day |-> d,
                       hour |-> 0, minute |-> 0, second |-> 0]
                 ELSE Invalid
        ELSE Invalid

\* pub = NOW; try: pub = strptime(date_txt, ...) except Exception: pass
parse_pub(date_txt) ==
    IF strptime(date_txt) = Invalid THEN NOW ELSE strptime(date_txt)

Digit(n) == Ch("0123456789", n + 1)

Pad2(n) == Digit((n \div 10) % 10) \o Digit(n % 10)

Pad4(n) == Pad2(n \div 100) \o Pad2(n % 100)

\* The day of the week of a calendar date, 1 = Sunday.
Weekday(y, m, d) ==
    LET t == << 0, 3, 2, 5, 0, 3, 5, 1, 4, 6, 2, 4 >>
        yy == IF m < 3 THEN y - 1 ELSE y
    IN  ((yy + (yy \div 4) - (yy \div 100) + (yy \div 400) + t[m] + d) % 7) + 1

\* dt_obj.strftime("%a, %d %b %Y %H:%M:%S +0000")
rfc2822(dt_obj) ==
    DayAbbr[Weekday(dt_obj.year, dt_obj.month, dt_obj.day)] \o ", "
      \o Pad2(dt_obj.day) \o " " \o MonthAbbr[dt_obj.month] \o " "
      \o Pad4(dt_obj.year) \o " " \o Pad2(dt_obj.hour) \o ":"
      \o Pad2(dt_obj.minute) \o ":" \o Pad2(dt_obj.second) \o " +0000"

\* --------------------------------------------------------------- identity

\* The characters of code 32 to 126, in order. The grave accent (code 96)
\* cannot be written in a TLA+ string; its place is held by the tab, so that
\* every character of the model has a code of its own.
Printable ==
    " !\"#$%&'(" \o ")" \o "*+,-./0123456789:;<=>?@" \o UpperCase
      \o "[\\]^_\t" \o LowerCase \o "{|}~"

HexDigit(n) == Ch("0123456789abcdef", n + 1)

PrintableChars == {Ch(Printable, k) : k \in 1..Len(Printable)}

\* Each character as the two hex digits of its code.
HexTable ==
    [c \in PrintableChars |->
        LET code == 31 + (CHOOSE k \in 1..Len(Printable) : Ch(Printable, k) = c)
        IN  HexDigit(code \div 16) \o HexDigit(code % 16)]

HexOf(c) == HexTable[c]

\* hashlib.sha256(data).hexdigest(). The digest is modelled by the hex image
\* of its input: a string of hex digits that, like a collision-free digest,
\* differs whenever the input differs (its fixed length of 64 is not kept).
RECURSIVE hex_range(_, _, _)
hex_range(data, lo, hi) ==
    IF lo > hi THEN ""
    ELSE IF lo = hi THEN HexOf(Ch(data, lo))
    ELSE hex_range(data, lo, (lo + hi) \div 2)
           \o hex_range(data, ((lo + hi) \div 2) + 1, hi)

sha256_hexdigest(data) == hex_range(data, 1, Len(data))

\* for p in parts: h.update((p or "").encode("utf-8")): the bytes the digest
\* has been fed after the loop.
RECURSIVE digest_input(_)
digest_input(parts) ==
    IF parts = << >> THEN ""
    ELSE or_empty(Head(parts)) \o digest_input(Tail(parts))

hash_guid(parts) == sha256_hexdigest(digest_input(parts))

\* ------------------------------------------------------------------ cards

\* One element matched by soup.select("article, li, div.card, .grid .card"):
\*   has_a, href, a_text       c.select_one("a[href]"), its href, its text
\*   has_date, date_text       c.select_one("time, .date, .meta time"), its text
\*   has_cat, cat_text         c.select_one(".category, .meta, .tags"), its text
\*   rest                      the text of the element outside those three
Card(has_a, href, a_text, has_date, date_text, has_cat, cat_text, rest) ==
    [has_a |-> has_a, href |-> href, a_text |-> a_text,
     has_date |-> has_date, date_text |-> date_text,
     has_cat |-> has_cat, cat_text |-> cat_text, rest |-> rest]

\* c.get_text(): the text of all descendants in document order; the children
\* are laid out one per line.
get_text(c) ==
    (IF c.has_a THEN c.a_text \o "\n" ELSE "")
      \o (IF c.has_date THEN c.date_text \o "\n" ELSE "")
      \o (IF c.has_cat THEN c.cat_text \o "\n" ELSE "")
      \o c.rest

\* if not href.startswith("http"): href = BASE + href
resolve_href(href) == IF ~startswith(href, "http") THEN BASE \o href ELSE href

\* date_txt = norm_space(date_el.get_text()) if date_el else ""
date_el_txt(c) == IF c.has_date THEN norm_space(c.date_text) ELSE ""

\* parse_latest_judgments: date_txt with the fallback to a date pattern in
\* the text of the card.
latest_date_txt(c) ==
    IF date_el_txt(c) = ""
    THEN search_date(norm_space(get_text(c)))
    ELSE date_el_txt(c)

\* parse_future_judgments: date_txt.
future_date_txt(c) == date_el_txt(c)

\* title = norm_space(a.get_text()); if not title: title = "Latest judgments"
latest_title(c) ==
    IF norm_space(c.a_text) = "" THEN "Latest judgments" ELSE norm_space(c.a_text)

\* title = norm_space(a.get_text()) or "Future judgments"
future_title(c) ==
    IF norm_space(c.a_text) = "" THEN "Future judgments" ELSE norm_space(c.a_text)

\* desc = norm_space(cat.get_text()) if cat else "Latest judgments"
latest_desc(c) == IF c.has_cat THEN norm_space(c.cat_text) ELSE "Latest judgments"

\* desc = "Future judgments"; if cat: desc = norm_space(cat.get_text())
future_desc(c) == IF c.has_cat THEN norm_space(c.cat_text) ELSE "Future judgments"

\* The filter testing for the word "judgments" alone.
future_filter_any_judgments(c) ==
    Contains(lower(norm_space(get_text(c))), "judgments")

\* "future judgments" not in norm_space(c.get_text()).lower()
future_filter(c) == Contains(lower(norm_space(get_text(c))), "future judgments")

\* The dict parse_latest_judgments makes of a card that has an anchor.
latest_item(c) ==
    [title |-> latest_title(c),
     link |-> resolve_href(c.href),
     guid |-> hash_guid(<< resolve_href(c.href), latest_title(c), latest_date_txt(c) >>),
     pubDate |-> rfc2822(parse_pub(latest_date_txt(c))),
     description |-> latest_desc(c)]

\* The dict parse_future_judgments makes of a card that has an anchor.
future_item(c) ==
    [title |-> future_title(c),
     link |-> resolve_href(c.href),
     guid |-> hash_guid(<< resolve_href(c.href), future_title(c), future_date_txt(c) >>),
     pubDate |-> rfc2822(parse_pub(future_date_txt(c))),
     description |-> future_desc(c)]

\* The iteration that also passes over a card for which no date was found.
latest_body_skip_undated(st, c) ==
    LET it == latest_item(c)
    IN  IF ~c.has_a THEN st
        ELSE IF latest_date_txt(c) = "" THEN st
        ELSE IF it.guid \in st.seen THEN st
        ELSE [items |-> Append(st.items, it), seen |-> st.seen \cup {it.guid}]

\* The iteration without the test of seen: every linked card is appended.
latest_body_no_seen_test(st, c) ==
    LET it == latest_item(c)
    IN  IF ~c.has_a THEN st
        ELSE [items |-> Append(st.items, it), seen |-> st.seen \cup {it.guid}]

\* One iteration of the loop of parse_latest_judgments on card c, from the
\* loop state st = [items, seen].
latest_body(st, c) ==
    LET it == latest_item(c)
    IN  IF ~c.has_a THEN st
        ELSE IF it.guid \in st.seen THEN st
        ELSE [items |-> Append(st.items, it), seen |-> st.seen \cup {it.guid}]

\* One iteration of the loop of parse_future_judgments.
future_body(st, c) ==
    LET it == future_item(c)
    IN  IF ~future_filter(c) THEN st
        ELSE IF ~c.has_a THEN st
        ELSE IF it.guid \in st.seen THEN st
        ELSE [items |-> Append(st.items, it), seen |-> st.seen \cup {it.guid}]

\* The slice taken one item too long.
truncate_one_more(items) ==
    SubSeq(items, 1, IF Len(items) < Cap + 1 THEN Len(items) ELSE Cap + 1)

\* items[:25]
truncate(items) == SubSeq(items, 1, IF Len(items) < Cap THEN Len(items) ELSE Cap)

\* The whole loop over the first n cards.
RECURSIVE latest_loop(_, _)
latest_loop(cs, n) ==
    IF n = 0 THEN [items |-> << >>, seen |-> {}]
    ELSE latest_body(latest_loop(cs, n - 1), cs[n])

RECURSIVE future_loop(_, _)
future_loop(cs, n) ==
    IF n = 0 THEN [items |-> << >>, seen |-> {}]
    ELSE future_body(future_loop(cs, n - 1), cs[n])

\* The list the function returns for a fetched page whose matched elements
\* are cs.
parse_latest_judgments(cs) == truncate(latest_loop(cs, Len(cs)).items)

parse_future_judgments(cs) == truncate(future_loop(cs, Len(cs)).items)

\* ------------------------------------------------------------------- feed

\* The f-string appended to rss_items for one item.
rss_item(it) ==
    "\n  <item>\n    <title>" \o escape_xml(it.title)
      \o "</title>\n    <link>" \o escape_xml(it.link)
      \o "</link>\n    <guid isPermaLink=\"false\">" \o escape_xml(it.guid)
      \o "</guid>\n    <pubDate>" \o escape_xml(it.pubDate)
      \o "</pubDate>\n    <description><![CDATA[" \o it.description
      \o "]]></description>\n  </item>"

\* ''.join(rss_items)
RECURSIVE join_items(_)
join_items(its) ==
    IF its = << >> THEN "" ELSE rss_item(Head(its)) \o join_items(Tail(its))

build_rss(its, title, feed_link, site_link, description) ==
    strip("<?xml version=\"1.0\" encoding=\"UTF-8\"?>\n<rss version=\"2.0\">\n<channel>\n  <title>"
      \o escape_xml(title) \o "</title>\n  <link>" \o escape_xml(site_link)
      \o "</link>\n  <description>" \o escape_xml(description)
      \o "</description>\n  <lastBuildDate>" \o rfc2822(NOW)
      \o "</lastBuildDate>\n  <docs>https://validator.w3.org/feed/docs/rss2.html</docs>\n"
      \o "  <generator>uksc-feeds</generator>\n  " \o join_items(its)
      \o "\n</channel>\n</rss>")

\* The two calls of main. (The dash of the two titles is an en dash in the
\* source; it is no markup character and is written "-" here.)
build_latest_xml(its) ==
    build_rss(its, "UK Supreme Court - Latest judgments", "latest-judgments.xml",
              BASE \o "/news/latest-judgments",
              "Auto-generated RSS of the Supreme Court's 'Latest judgments' updates.")

build_future_xml(its) ==
    build_rss(its, "UK Supreme Court - Future judgments", "future-judgments.xml",
              BASE \o "/news",
              "Auto-generated RSS of the Supreme Court's 'Future judgments' updates.")

\* --------------------------------------------------------------- documents

\* A news card of the Future judgments category.
K1 == Card(TRUE, "/news/future-1", "R v Smith", TRUE, "15 January 2026",
           TRUE, "Future judgments", "")

\* The same card as the markup of another listing lays it out.
K2 == Card(TRUE, "/news/future-1", " R v\n Smith ", TRUE, "15  January\n2026",
           TRUE, "FUTURE   Judgments\n", "Read more")

\* A list entry with no link.
K3 == Card(FALSE, "", "", FALSE, "", FALSE, "", "Future judgments 3 March 2026")

\* A card of the Latest judgments category with an absolute link, markup
\* characters in its title and its date in the running text.
K4 == Card(TRUE, "https://www.supremecourt.uk/cases/uksc-2025-0001",
           "A & B <Appellant> v C", FALSE, "", TRUE, "Latest judgments",
           "Judgment given on 4 February 2026")

\* A card with an image link (no anchor text), the date in the running text.
K5 == Card(TRUE, "/news/future-2", "", FALSE, "", TRUE, "Future judgments",
           "Hand-down 18 March 2026")

\* A relative link that begins with the letters http, and no such date.
K6 == Card(TRUE, "http-archive/2026.html", "Archive", TRUE, "31 February 2026",
           FALSE, "", "future judgments list")

\* Two cards whose link and title differ and concatenate to the same text.
K7 == Card(TRUE, "/a", "bc", FALSE, "", FALSE, "", "Future judgments")

K8 == Card(TRUE, "/ab", "c", FALSE, "", FALSE, "", "Future judgments")

\* A category label that holds the CDATA terminator.
K9 == Card(TRUE, "/news/x", "Costs", TRUE, "", TRUE, "Future judgments ]]> costs",
           "7 May 2026")

CardPool == {K1, K2, K3, K4, K5, K6, K7, K8, K9}

\* The cards a page of a run of main is made of.
MainPool == {K1, K3, K9}

Num(k) == IF k < 10 THEN Digit(k) ELSE Digit(k \div 10) \o Digit(k % 10)

\* The k-th card of a long listing.
NumberedCard(k) ==
    Card(TRUE, "/cases/" \o Num(k), "Case " \o Num(k), TRUE, "15 January 2026",
         TRUE, "Future judgments", "")

Variants == {"plain", "repeat", "nolink", "news"}

\* What stands at one place of a long listing in place of its numbered card:
\* the first card again, an entry with no link, or a card of another category.
VariantCard(v, k) ==
    IF v = "repeat" THEN NumberedCard(1)
    ELSE IF v = "nolink" THEN K3
    ELSE IF v = "news" THEN [NumberedCard(k) EXCEPT !.cat_text = "News"]
    ELSE NumberedCard(k)

\* A listing of n numbered cards, with variant v at place p.
LongDoc(n, p, v) ==
    [k \in 1..n |-> IF k = p THEN VariantCard(v, k) ELSE NumberedCard(k)]

SeqsUpTo(S, n) == UNION {[1..m -> S] : m \in 0..n}

SmallDocs == SeqsUpTo(CardPool, MaxCards)

LongDocs ==
    {LongDoc(n, p, v) : n \in (Cap - 1)..(Cap + MaxOver), p \in {2, 3, Cap, Cap + 1},
                        v \in Variants}

MainDocs == SeqsUpTo(MainPool, MaxCards)

\* ------------------------------------------------------------------- state

VARIABLES
    strategy,     \* "latest" or "future": the extractor that is running
    cards,        \* cards = soup.select(...)
    idx,          \* the number of cards the for loop has gone through
    items,        \* items
    seen,         \* seen
    origin,       \* history: origin[k] is the index in cards that items[k] is from
    ids,          \* history: ids[j] is the guid computed for cards[j] ("" if it
                  \* has no anchor)
    result,       \* the returned list
    pc,           \* "loop", "done" ("idle" outside Spec)
    mpc,          \* the position of the process in main and the __main__ guard
    latest,       \* main: latest
    future,       \* main: future
    latest_xml,   \* main: latest_xml
    future_xml,   \* main: future_xml
    files,        \* the two output files: [exists, content] by path
    fetched,      \* history: the pages fetch() has returned in this run
    stdout,       \* the lines printed
    stderr,       \* the lines printed to sys.stderr
    exit_status,  \* -1 while the process runs, then its exit status
    rss_in,       \* SpecRss: the item given to build_rss
    rss_out       \* SpecRss: the document build_rss returns ("" before)

extVars == << strategy, cards, idx, items, seen, origin, ids, result, pc >>

mainVars == << mpc, latest, future, latest_xml, future_xml, files, fetched,
               stdout, stderr, exit_status >>

rssVars == << rss_in, rss_out >>

vars == << extVars, mainVars, rssVars >>

NoItem == [title |-> "", link |-> "", guid |-> "", pubDate |-> "", description |-> ""]

NoFile == [exists |-> FALSE, content |-> ""]

ExtIdle ==
    /\ strategy = "latest" /\ cards = << >> /\ idx = 0 /\ items = << >>
    /\ seen = {} /\ origin = << >> /\ ids = << >> /\ result = << >> /\ pc = "idle"

MainIdle ==
    /\ mpc = "idle" /\ latest = << >> /\ future = << >>
    /\ latest_xml = "" /\ future_xml = ""
    /\ files = [l \in {"latest-judgments.xml", "future-judgments.xml"} |-> NoFile]
    /\ fetched = {} /\ stdout = << >> /\ stderr = << >> /\ exit_status = -1

RssIdle == rss_in = NoItem /\ rss_out = ""

\* ------------------------------------------------ Spec: one extraction call

Init ==
    /\ strategy \in {"latest", "future"}
    /\ cards \in SmallDocs \cup LongDocs
    /\ idx = 0 /\ items = << >> /\ seen = {} /\ origin = << >> /\ ids = << >>
    /\ result = << >> /\ pc = "loop"
    /\ MainIdle /\ RssIdle

\* guid = hash_guid(href, title, date_txt), as the running extractor computes
\* it for a card with an anchor.
card_guid(c) ==
    IF ~c.has_a THEN ""
    ELSE IF strategy = "latest" THEN latest_item(c).guid ELSE future_item(c).guid

\* The loop goes on to the next card with the state st that the body left.
Advance(st) ==
    /\ items' = st.items
    /\ seen' = st.seen
    /\ origin' = IF Len(st.items) > Len(items) THEN Append(origin, idx + 1) ELSE origin
    /\ ids' = Append(ids, card_guid(cards[idx + 1]))
    /\ idx' = idx + 1
    /\ UNCHANGED << strategy, cards, result, pc, mainVars, rssVars >>

\* parse_latest_judgments: for c in cards, one iteration.
LatestIteration ==
    /\ pc = "loop" /\ strategy = "latest" /\ idx < Len(cards)
    /\ \E st \in {latest_body([items |-> items, seen |-> seen], cards[idx + 1])} :
          Advance(st)

\* parse_future_judgments: for c in cards, one iteration.
FutureIteration ==
    /\ pc = "loop" /\ strategy = "future" /\ idx < Len(cards)
    /\ \E st \in {future_body([items |-> items, seen |-> seen], cards[idx + 1])} :
          Advance(st)

\* return items[:25]
Return ==
    /\ pc = "loop" /\ idx = Len(cards)
    /\ result' = truncate(items)
    /\ pc' = "done"
    /\ UNCHANGED << strategy, cards, idx, items, seen, origin, ids, mainVars, rssVars >>

Next == LatestIteration \/ FutureIteration \/ Return

Spec == Init /\ [][Next]_vars

\* ---------------------------------------------- SpecMain: one run of main

Paths == {"latest-judgments.xml", "future-judgments.xml"}

\* What was on disk before the run.
OldFile == [exists |-> TRUE, content |-> "<rss>the feed of the previous run</rss>"]

InitMain ==
    /\ ExtIdle /\ RssIdle
    /\ mpc = "parse_latest"
    /\ latest = << >> /\ future = << >> /\ latest_xml = "" /\ future_xml = ""
    /\ files \in [Paths -> {NoFile, OldFile}]
    /\ fetched = {} /\ stdout = << >> /\ stderr = << >> /\ exit_status = -1

\* fetch(url) raises: requests.get fails (transport) or raise_for_status()
\* finds an error status. The exception leaves main.
FetchRaises(url) ==
    /\ \E e \in {"ConnectionError", "HTTPError"} :
          stderr' = Append(stderr, "ERROR: " \o e \o " " \o url)
    /\ mpc' = "exit"
    /\ exit_status' = 1
    /\ UNCHANGED << latest, future, latest_xml, future_xml, files, fetched, stdout >>

\* The latest feed built and written as soon as its page is parsed.
MainParseLatestAndWrite ==
    /\ mpc = "parse_latest"
    /\ \/ \E doc \in MainDocs :
             /\ latest' = parse_latest_judgments(doc)
             /\ fetched' = fetched \cup {BASE \o "/news/latest-judgments"}
             /\ latest_xml' = build_latest_xml(latest')
             /\ files' = [files EXCEPT !["latest-judgments.xml"] =
                              [exists |-> TRUE, content |-> latest_xml']]
             /\ mpc' = "parse_future"
             /\ UNCHANGED << future, future_xml, stdout, stderr, exit_status >>
       \/ FetchRaises(BASE \o "/news/latest-judgments")
    /\ UNCHANGED << extVars, rssVars >>

\* latest = parse_latest_judgments()
MainParseLatest ==
    /\ mpc = "parse_latest"
    /\ \/ \E doc \in MainDocs :
             /\ latest' = parse_latest_judgments(doc)
             /\ fetched' = fetched \cup {BASE \o "/news/latest-judgments"}
             /\ mpc' = "parse_future"
             /\ UNCHANGED << future, latest_xml, future_xml, files, stdout,
                             stderr, exit_status >>
       \/ FetchRaises(BASE \o "/news/latest-judgments")
    /\ UNCHANGED << extVars, rssVars >>

\* future = parse_future_judgments()
MainParseFuture ==
    /\ mpc = "parse_future"
    /\ \/ \E doc \in MainDocs :
             /\ future' = parse_future_judgments(doc)
             /\ fetched' = fetched \cup {BASE \o "/news"}
             /\ mpc' = "build_latest"
             /\ UNCHANGED << latest, latest_xml, future_xml, files, stdout,
                             stderr, exit_status >>
       \/ FetchRaises(BASE \o "/news")
    /\ UNCHANGED << extVars, rssVars >>

\* latest_xml = build_rss(latest, ...)
MainBuildLatest ==
    /\ mpc = "build_latest"
    /\ latest_xml' = build_latest_xml(latest)
    /\ mpc' = "build_future"
    /\ UNCHANGED << latest, future, future_xml, files, fetched, stdout, stderr,
                    exit_status, extVars, rssVars >>

\* future_xml = build_rss(future, ...)
MainBuildFuture ==
    /\ mpc = "build_future"
    /\ future_xml' = build_future_xml(future)
    /\ mpc' = "write_latest"
    /\ UNCHANGED << latest, future, latest_xml, files, fetched, stdout, stderr,
                    exit_status, extVars, rssVars >>

\* write_file(path, content): open(path, "w") creates or empties the file and
\* f.write fills it; either may raise OSError, which leaves main.
write_file(path, content, then) ==
    \/ /\ files' = [files EXCEPT ![path] = [exists |-> TRUE, content |-> content]]
       /\ mpc' = then
       /\ UNCHANGED << stderr, exit_status >>
    \/ /\ \E f \in {files[path], [exists |-> TRUE, content |-> ""]} :
             files' = [files EXCEPT ![path] = f]
       /\ stderr' = Append(stderr, "ERROR: OSError " \o path)
       /\ mpc' = "exit"
       /\ exit_status' = 1

\* write_file("latest-judgments.xml", latest_xml)
MainWriteLatest ==
    /\ mpc = "write_latest"
    /\ write_file("latest-judgments.xml", latest_xml, "write_future")
    /\ UNCHANGED << latest, future, latest_xml, future_xml, fetched, stdout,
                    extVars, rssVars >>

\* write_file("future-judgments.xml", future_xml)
MainWriteFuture ==
    /\ mpc = "write_future"
    /\ write_file("future-judgments.xml", future_xml, "print")
    /\ UNCHANGED << latest, future, latest_xml, future_xml, fetched, stdout,
                    extVars, rssVars >>

\* The two print calls, and the normal end of the process.
MainPrint ==
    /\ mpc = "print"
    /\ stdout' = << "Wrote latest-judgments.xml (" \o Num(Len(latest)) \o " items)",
                    "Wrote future-judgments.xml (" \o Num(Len(future)) \o " items)" >>
    /\ mpc' = "exit"
    /\ exit_status' = 0
    /\ UNCHANGED << latest, future, latest_xml, future_xml, files, fetched, stderr,
                    extVars, rssVars >>

NextMain ==
    \/ MainParseLatest
    \/ MainParseFuture
    \/ MainBuildLatest
    \/ MainBuildFuture
    \/ MainWriteLatest
    \/ MainWriteFuture
    \/ MainPrint

SpecMain == InitMain /\ [][NextMain]_vars

\* -------------------------------------------- SpecRss: build_rss on one item

\* The markup characters, the letters of the entity lt and the semicolon.
Alphabet == {"&", "<", ">", ";", "l", "t"}

RECURSIVE Concat(_)
Concat(cs) == IF cs = << >> THEN "" ELSE Head(cs) \o Concat(Tail(cs))

\* Every string over Alphabet of length at most MaxLen.
Strings == {Concat(cs) : cs \in SeqsUpTo(Alphabet, MaxLen)}

\* An item as the extractors make them.
SampleItem == latest_item(K1)

InitRss ==
    /\ ExtIdle /\ MainIdle
    /\ \E s \in Strings :
          rss_in \in {[SampleItem EXCEPT !.title = s],
                      [SampleItem EXCEPT !.link = s],
                      [SampleItem EXCEPT !.guid = s]}
    /\ rss_out = ""

\* build_rss([item], ...)
RssBuild ==
    /\ rss_out = ""
    /\ rss_out' = build_latest_xml(<< rss_in >>)
    /\ UNCHANGED << rss_in, extVars, mainVars >>

NextRss == RssBuild

SpecRss == InitRss /\ [][NextRss]_vars

\* ------------------------------------------------- the extraction claims

\* The text of card c, whitespace-normalized and lowercased, contains the
\* phrase of the Future judgments category.
HasPhrase(c) == Contains(lower(norm_space(get_text(c))), "future judgments")

\* The cards processed so far.
Processed == 1..Len(ids)

\* For each processed card: it has a link and passes the category filter of
\* the running strategy.
EligibleMap ==
    [j \in Processed |->
        cards[j].has_a /\ (strategy = "latest" \/ HasPhrase(cards[j]))]

\* Card j is eligible (by the map e) and no eligible card before it has its
\* identity.
FirstOfIdentity(e, j) == e[j] /\ \A i \in 1..(j - 1) : e[i] => ids[i] # ids[j]

\* The identities of the eligible cards processed so far.
DistinctIds(e) == {ids[j] : j \in {i \in Processed : e[i]}}

\* The cards the returned items come from.
Returned == {origin[k] : k \in 1..Len(result)}

\* C1: a finished extraction returns at most 25 items, and as many as there
\* are distinct identities among the eligible cards when these are fewer: the
\* returned items are, in order, the first 25 cards that are the first of
\* their identity, so a card skipped as a duplicate takes none of the 25 places.
C1_CapCountsDistinctIdentities ==
    pc = "done" =>
        \A e \in {EligibleMap} :
            /\ Len(result) <= Cap
            /\ \A n \in {Cardinality(DistinctIds(e))} :
                  Len(result) = (IF n < Cap THEN n ELSE Cap)
            /\ \A k \in 1..Len(result) :
                  /\ FirstOfIdentity(e, origin[k])
                  /\ result[k].guid = ids[origin[k]]
                  /\ Cardinality({j \in 1..origin[k] : FirstOfIdentity(e, j)}) = k

\* A listing of more than 25 cards with a duplicate among its first 25: the
\* result is full and holds a card that stands after the 25th place.
C1_Witness ==
    /\ pc = "done"
    /\ Len(result) = Cap
    /\ \E e \in {EligibleMap} :
          /\ Cardinality(DistinctIds(e)) > Cap
          /\ \E j \in 1..Cap : e[j] /\ ~FirstOfIdentity(e, j)
    /\ \E j \in Returned : j > Cap

\* C2: at every step of the loop the guids of the appended items are pairwise
\* distinct, seen is the set of these guids, and each item comes from the
\* first card in document order that has its identity.
C2_DedupKeepsFirst ==
    /\ \A k1, k2 \in 1..Len(items) : k1 # k2 => items[k1].guid # items[k2].guid
    /\ seen = {items[k].guid : k \in 1..Len(items)}
    /\ Len(origin) = Len(items)
    /\ \A e \in {EligibleMap} :
          \A k \in 1..Len(items) :
              /\ items[k].guid = ids[origin[k]]
              /\ FirstOfIdentity(e, origin[k])
    /\ \A k1, k2 \in 1..Len(result) : k1 # k2 => result[k1].guid # result[k2].guid

\* The loop has met an eligible card whose identity an earlier card had.
C2_Witness ==
    /\ pc = "loop"
    /\ items # << >>
    /\ \E e \in {EligibleMap} : \E j \in Processed : e[j] /\ ~FirstOfIdentity(e, j)

\* C3: every item of parse_future_judgments comes from a card whose text has
\* the phrase, and every guid in seen is the identity of such a card;
\* parse_latest_judgments tests no phrase: the identity of every linked card
\* it has processed is in seen.
C3_FutureFilter ==
    /\ strategy = "future" =>
          \A ph \in {[j \in Processed |-> HasPhrase(cards[j])]} :
              /\ \A k \in 1..Len(items) : ph[origin[k]]
              /\ \A g \in seen :
                    \E j \in Processed : cards[j].has_a /\ ph[j] /\ ids[j] = g
    /\ strategy = "latest" =>
          \A j \in Processed : cards[j].has_a => ids[j] \in seen

\* parse_future_judgments has passed over a linked card without the phrase
\* and has appended another card.
C3_Witness ==
    /\ strategy = "future"
    /\ items # << >>
    /\ \E j \in Processed :
          /\ cards[j].has_a /\ ~HasPhrase(cards[j])
          /\ ids[j] \notin seen

\* parse_latest_judgments has appended a card without the phrase.
C3_LatestEmitsWithoutPhrase ==
    /\ strategy = "latest"
    /\ \E k \in 1..Len(items) : ~HasPhrase(cards[origin[k]])

\* An href that begins with a scheme.
IsAbsolute(href) == startswith(href, "http://") \/ startswith(href, "https://")

\* C7: the link of every item is its card's href when that is absolute, and
\* the base origin followed by the href otherwise.
C7_LinksAreAbsolute ==
    \A k \in 1..Len(items) :
        \A h \in {cards[origin[k]].href} :
            items[k].link = (IF IsAbsolute(h) THEN h ELSE BASE \o h)

\* The link, title and raw date text the running extractor derives from a
\* linked card: the three parts given to hash_guid.
Triple(c) ==
    IF strategy = "latest"
    THEN << resolve_href(c.href), latest_title(c), latest_date_txt(c) >>
    ELSE << resolve_href(c.href), future_title(c), future_date_txt(c) >>

\* C8: two cards that differ in link, title or raw date text feed different
\* bytes to the digest, so an eligible card is passed over as a duplicate only
\* when an earlier eligible card has the same three parts.
C8_IdentityDeterminesTriple ==
    \A e \in {EligibleMap} :
      \A t \in {[j \in Processed |-> IF e[j] THEN Triple(cards[j]) ELSE << >>]} :
        \A j \in Processed :
            /\ \A i \in 1..(j - 1) :
                  (e[i] /\ e[j] /\ t[i] # t[j])
                      => digest_input(t[i]) # digest_input(t[j])
            /\ (e[j] /\ j \notin {origin[k] : k \in 1..Len(origin)})
                  => \E i \in 1..(j - 1) : e[i] /\ t[i] = t[j]

\* C9: for a linked card that passes the future-judgments filter, the two
\* extractors derive the same raw date text and the same publication date,
\* and the same guid when they derive the same title.
C9_SameDateChain ==
    \A j \in Processed :
        \A c \in {cards[j]} :
            (c.has_a /\ HasPhrase(c)) =>
                /\ latest_date_txt(c) = future_date_txt(c)
                /\ latest_item(c).pubDate = future_item(c).pubDate
                /\ (latest_title(c) = future_title(c)
                        => latest_item(c).guid = future_item(c).guid)

\* The raw date text the running extractor derives from a card.
RawDate(c) == IF strategy = "latest" THEN latest_date_txt(c) ELSE future_date_txt(c)

DefaultText == IF strategy = "latest" THEN "Latest judgments" ELSE "Future judgments"

\* C10: when the extraction has returned, a card is absent from the result
\* exactly when it has no link, or fails the category filter (future only),
\* or an earlier eligible card had its identity, or 25 distinct identities
\* stood before it. An item whose card has no anchor text, no category
\* element, or no date that strptime accepts carries the default title, the
\* default description, or the run-start timestamp.
C10_OnlyFourSkipReasons ==
    pc = "done" =>
        \A e \in {EligibleMap} :
            /\ \A j \in 1..Len(cards) :
                  (j \in Returned) <=>
                      ~ \/ ~cards[j].has_a
                        \/ (strategy = "future" /\ ~HasPhrase(cards[j]))
                        \/ \E i \in 1..(j - 1) : e[i] /\ ids[i] = ids[j]
                        \/ Cardinality({ids[i] : i \in {h \in 1..(j - 1) : e[h]}}) >= Cap
            /\ \A k \in 1..Len(result) :
                  \A c \in {cards[origin[k]]} :
                      /\ norm_space(c.a_text) = "" => result[k].title = DefaultText
                      /\ norm_space(c.a_text) # "" => result[k].title = norm_space(c.a_text)
                      /\ ~c.has_cat => result[k].description = DefaultText
                      /\ strptime(RawDate(c)) = Invalid
                            => result[k].pubDate = rfc2822(NOW)

\* A returned item with the default title and the run-start timestamp, from
\* a listing that also holds an entry with no link.
C10_Witness ==
    /\ pc = "done"
    /\ \E j \in 1..Len(cards) : ~cards[j].has_a
    /\ \E k \in 1..Len(result) :
          /\ norm_space(cards[origin[k]].a_text) = ""
          /\ RawDate(cards[origin[k]]) = ""
          /\ result[k].title = DefaultText
          /\ result[k].pubDate = rfc2822(NOW)

\* ------------------------------------------------------ the claims of main

BothPages == {BASE \o "/news/latest-judgments", BASE \o "/news"}

\* The file at path p is not as it was before the run.
Modified(p) == files[p] \notin {NoFile, OldFile}

\* C4: an output file is touched only after both pages have been fetched and
\* both documents assembled; a run in which a fetch failed ends with both
\* files as they were, the error on stderr and exit status 1.
C4_NoWriteBeforeBothAssembled ==
    /\ (\E p \in Paths : Modified(p)) =>
          /\ fetched = BothPages
          /\ latest_xml = build_latest_xml(latest)
          /\ future_xml = build_future_xml(future)
    /\ (mpc = "exit" /\ fetched # BothPages) =>
          /\ \A p \in Paths : ~Modified(p)
          /\ exit_status = 1
          /\ stderr # << >>

\* The second fetch failed after the first page gave items: the process has
\* exited and the latest feed of the previous run is still on disk.
C4_Witness ==
    /\ mpc = "exit"
    /\ fetched = {BASE \o "/news/latest-judgments"}
    /\ latest # << >>
    /\ files["latest-judgments.xml"] = OldFile
    /\ exit_status = 1

\* The text of xml from its k-th "<item>" on.
RECURSIVE FromItem(_, _)
FromItem(xml, k) ==
    IF k = 1 THEN Tail_(xml, Find(xml, "<item>"))
    ELSE FromItem(Tail_(xml, Find(xml, "<item>") + 6), k - 1)

\* The text of t after the first occurrence of open, up to the first
\* occurrence of close after it.
AfterOpen(t, open) == Tail_(t, Find(t, open) + Len(open))

TextBetween(t, open, close) ==
    CHOOSE x \in {SubSeq(rest, 1, Find(rest, close) - 1) :
                      rest \in {AfterOpen(t, open)}} : TRUE

\* C6: in the assembled latest feed, the CDATA section of every item, read
\* from "<![CDATA[" to the first "]]>", is the description of the item.
C6_DescriptionSurvivesCData ==
    latest_xml # "" =>
        \A k \in 1..Len(latest) :
            TextBetween(FromItem(latest_xml, k), "<![CDATA[", "]]>")
                = latest[k].description

\* --------------------------------------------------- the claim of build_rss

\* &lt; to <, &gt; to >, then &amp; to &.
unescape_xml(t) ==
    replace(replace(replace(t, "&lt;", "<"), "&gt;", ">"), "&amp;", "&")

\* Every ampersand of t begins one of the three entities.
AmpersandsAreEntities(t) ==
    \A i \in 1..Len(t) :
        Ch(t, i) = "&" =>
            \E ent \in {"&amp;", "&lt;", "&gt;"} : startswith(Tail_(t, i), ent)

EscapedFields ==
    { << "title", "<title>", "</title>" >>,
      << "link", "<link>", "</link>" >>,
      << "guid", "<guid isPermaLink=\"false\">", "</guid>" >> }

\* C5: the text inside the title, link and guid elements of the item holds
\* no raw < or >, each of its ampersands begins &amp;, &lt; or &gt;, and
\* un-escaping it gives the field of the item back.
C5_EscapeRoundTrip ==
    rss_out # "" =>
        \A it \in {FromItem(rss_out, 1)}, f \in EscapedFields :
            \A t \in {TextBetween(it, f[2], f[3])} :
                /\ ~Contains(t, "<")
                /\ ~Contains(t, ">")
                /\ AmpersandsAreEntities(t)
                /\ unescape_xml(t) = rss_in[f[1]]

\* build_rss has rendered a title that holds all three markup characters.
C5_Witness ==
    /\ rss_out # ""
    /\ Contains(rss_in.title, "&")
    /\ Contains(rss_in.title, "<")
    /\ Contains(rss_in.title, ">")

=============================================================================
